---- MODULE Spec2Model ----
(***************************************************************************)
(* Building_Permits-Analysis: the Streamlit pages over Building_Permits.csv *)
(* (Home.py, pages/Univariate.py, pages/Bivariate.py, pages/Exploration.py). *)
(* A page is a script that is re-run from top to bottom on every widget     *)
(* interaction; one action of the model is one interaction followed by the  *)
(* whole re-run.  Spec follows the widgets of the Univariate and Bivariate  *)
(* pages, SpecPages the four pages and their loads of the CSV file.         *)
(*                                                                          *)
(* A column is a function from the row labels 1 .. n to cells; a series or   *)
(* a frame carries, next to its values, the set idx of the row labels it    *)
(* still holds.                                                             *)
(***************************************************************************)
EXTENDS Integers, Sequences, FiniteSets, Bags, TLC

VARIABLES csv_file, cache, page, w, view, np_rng, t_in, t_out, reads, installed

vars == <<csv_file, cache, page, w, view, np_rng, t_in, t_out, reads, installed>>

(* ------------------------------ bounds --------------------------------- *)

\* rows of the CSV file
NRows == 64
\* longest series handed to the classifier on its own
MaxLen == 3

(* --------------------------- cells and series -------------------------- *)

\* A cell is a number: its kind times 1000 plus its value.  Kind 0 is a
\* missing value, 1 a text (the value is the id of the text; id 0 is the text
\* 'Other'), 2 a number, 3 a boolean, 4 a timestamp.
NA == 0
Str(n) == 1000 + n
Num(n) == 2000 + n
Bool(n) == 3000 + n
Datetime(n) == 4000 + n
kind(c) == c \div 1000
\* the text 'Other'
Other == Str(0)

\* Series.nunique(dropna=True) over the rows `idx` of the values `vals`
nunique(vals, idx) == Cardinality({vals[r] : r \in idx} \ {NA})

(* ------------------------- dtype predicates ---------------------------- *)

is_numeric_dtype(dtype) == dtype \in {"int64", "float64", "bool"}
is_object_dtype(dtype) == dtype = "object"
is_categorical_dtype(dtype) == dtype = "category"
is_bool_dtype(dtype) == dtype = "bool"

\* a series is [dtype, vals, idx]: the dtype, the values and the row labels
Series(dtype, vals, idx) == [dtype |-> dtype, vals |-> vals, idx |-> idx]

is_numeric(series) == is_numeric_dtype(series.dtype)

\* is_categorical with the cardinality test written < instead of <=
is_categorical_lt(series, threshold) ==
    IF is_object_dtype(series.dtype) \/ is_categorical_dtype(series.dtype)
          \/ is_bool_dtype(series.dtype)
    THEN TRUE
    ELSE IF is_numeric_dtype(series.dtype)
             /\ nunique(series.vals, series.idx) < threshold
         THEN TRUE
         ELSE FALSE

\* pages/Univariate.py
is_categorical(series, threshold) ==
    IF is_object_dtype(series.dtype) \/ is_categorical_dtype(series.dtype)
          \/ is_bool_dtype(series.dtype)
    THEN TRUE
    ELSE IF is_numeric_dtype(series.dtype)
             /\ nunique(series.vals, series.idx) <= threshold
         THEN TRUE
         ELSE FALSE

\* pages/Bivariate.py
is_categorical_biv(series, cat_threshold) ==
    IF is_object_dtype(series.dtype) \/ is_categorical_dtype(series.dtype)
          \/ is_bool_dtype(series.dtype)
    THEN TRUE
    ELSE IF is_numeric_dtype(series.dtype)
             /\ nunique(series.vals, series.idx) <= cat_threshold
         THEN TRUE
         ELSE FALSE

(* ------------------------------ the dataset ---------------------------- *)

Rows == 1 .. NRows

\* The columns pd.read_csv infers from the file: int64 and float64 numbers
\* and object (text).  A frame is [cols, idx, col].
PermitNumber == [dtype |-> "int64", vals |-> [i \in Rows |-> Num(100 + i)]]

Stories ==
    [dtype |-> "float64",
     vals |-> [i \in Rows |-> IF i % 7 = 0 THEN NA ELSE Num((i % 3) + 1)]]

\* 62 different texts
Description == [dtype |-> "object", vals |-> [i \in Rows |-> Str(201 + ((i - 1) % 62))]]

\* 45 different texts, one of them the text 'Other'
StreetName ==
    [dtype |-> "object",
     vals |-> [i \in Rows |-> IF i % 32 = 0 THEN NA
                              ELSE IF (i - 1) % 45 = 0 THEN Other
                              ELSE Str(100 + ((i - 1) % 45))]]

\* 5 different texts, the most frequent of them the text 'Other'
PermitType ==
    [dtype |-> "object",
     vals |-> [i \in Rows |-> IF i % 16 = 7 THEN NA
                              ELSE IF i % 8 \in {0, 1, 2} THEN Other
                              ELSE IF i % 8 \in {3, 4} THEN Str(1)
                              ELSE Str((i % 8) - 3)]]

Columns ==
    <<"Permit Number", "Stories", "Description", "Street Name", "Permit Type">>

\* the frame read from a well-formed Building_Permits.csv
CsvFrame ==
    [cols |-> Columns,
     idx |-> Rows,
     col |-> [c \in {Columns[i] : i \in 1 .. Len(Columns)} |->
                CASE c = "Permit Number" -> PermitNumber
                  [] c = "Stories" -> Stories
                  [] c = "Description" -> Description
                  [] c = "Street Name" -> StreetName
                  [] OTHER -> PermitType]]

\* pd.DataFrame()
EmptyFrame == [cols |-> <<>>, idx |-> {}, col |-> <<>>]

\* DataFrame.empty
empty(df) == Len(df.cols) = 0 \/ df.idx = {}

\* df[column]
getcol(df, c) == Series(df.col[c].dtype, df.col[c].vals, df.idx)

(* ---------------------------- pandas helpers --------------------------- *)

\* the tallies a and b of two runs of rows, b's after a's, put together
merge_counts(a, b) ==
    [count |-> a.count (+) b.count,
     order |-> a.order \o SelectSeq(b.order, LAMBDA v : ~BagIn(v, a.count))]

RECURSIVE count_rows(_, _, _, _)
\* the rows lo .. hi of idx tallied: count is the bag of their non-missing
\* values, order lists the values by first appearance
count_rows(vals, idx, lo, hi) ==
    IF lo = hi
    THEN IF lo \in idx /\ vals[lo] # NA
         THEN [count |-> SetToBag({vals[lo]}), order |-> <<vals[lo]>>]
         ELSE [count |-> EmptyBag, order |-> <<>>]
    ELSE merge_counts(count_rows(vals, idx, lo, (lo + hi) \div 2),
                      count_rows(vals, idx, ((lo + hi) \div 2) + 1, hi))

\* d comes before e in the order of value_counts: the larger count first,
\* equal counts by first appearance
Ahead(d, e) == d.count > e.count \/ (d.count = e.count /\ d.first < e.first)

\* Series.value_counts(dropna=True): [cat, count, first] for each distinct
\* non-missing value, first being its rank by first appearance, sorted
value_counts(vals, idx) ==
    LET acc == count_rows(vals, idx, 1, NRows)
    IN SortSeq([i \in 1 .. Len(acc.order) |->
                  [cat |-> acc.order[i], count |-> acc.count[acc.order[i]], first |-> i]],
               Ahead)

\* vc.nlargest(k).index, keep='first'
nlargest(vc, k) == {vc[i].cat : i \in 1 .. (IF k < Len(vc) THEN k ELSE Len(vc))}

\* the values outside top made missing instead of 'Other'
where_isin_nan(vals, idx, top) ==
    [r \in idx |-> IF vals[r] \in top THEN vals[r] ELSE NA]

\* series.where(series.isin(top), other='Other')
where_isin(vals, idx, top) ==
    [r \in idx |-> IF vals[r] \in top THEN vals[r] ELSE Other]

\* pages/Bivariate.py top_k_with_other
top_k_with_other(vals, idx, k) == where_isin(vals, idx, nlargest(value_counts(vals, idx), k))

\* series.notna(): the rows of idx where vals holds a value
notna_rows(vals, idx) == {r \in idx : vals[r] # NA}

RECURSIVE all_notna(_, _, _)
\* subdf[cols[i..]].notna().all(axis=1)
all_notna(df, cols, i) ==
    IF i > Len(cols)
    THEN df.idx
    ELSE notna_rows(df.col[cols[i]].vals, df.idx) \cap all_notna(df, cols, i + 1)

\* the rows kept, with the selector of the colour column left out
safe_dropna_xy(df, cols) == all_notna(df, SubSeq(cols, 1, 2), 1)

\* pages/Bivariate.py safe_dropna: the rows with no missing value in cols
safe_dropna(df, cols) == all_notna(df, cols, 1)

\* the generator of numpy.random.RandomState, as a congruential generator
lcg(s) == (s * 37 + 11) % 101

Min(S) == CHOOSE x \in S : \A y \in S : x <= y

RECURSIVE draw(_, _, _)
\* n row labels of idx drawn without replacement from the generator state s
draw(idx, n, s) ==
    IF n = 0 \/ idx = {}
    THEN {}
    ELSE LET s1 == lcg(s)
             start == (s1 % NRows) + 1
             later == {r \in idx : r >= start}
             pick == IF later = {} THEN Min(idx) ELSE Min(later)
         IN {pick} \cup draw(idx \ {pick}, n - 1, s1)

\* the seed the pages pass to DataFrame.sample
random_state == 42

\* DataFrame.sample(n) with no random_state: numpy's global generator is
\* used, and advanced
sample_global(idx, n, g) == [idx |-> draw(idx, n, g), rng |-> lcg(g)]

\* DataFrame.sample(n, random_state=42): a fresh generator seeded 42; the
\* global generator g is left alone
sample(idx, n, g) == [idx |-> draw(idx, n, random_state), rng |-> g]

(* ------------------------- widgets and views --------------------------- *)

\* st.selectbox option None
NoColor == "(none)"

\* the values the widgets are set to
CatThresholds == {2, 20}
SampleLimits == {0, 10, 5000}
TopKs == {3, 25}
ColorChoices == {NoColor, "Permit Type"}
Prefs == {"Heatmap", "Stacked Bar", "Grouped Bar"}
PlotChoices == {"Scatter", "Heatmap", "Line"}
ChartChoices == {"Box", "Bar"}
AggFuncs == {"count", "mean", "median", "sum"}

NoFrame == [idx |-> {}, x |-> <<>>, y |-> <<>>, color |-> <<>>]

\* what one run of a page script has put on the page
NoView ==
    [status |-> "none", branch |-> "none", warn_same |-> FALSE,
     num_x |-> FALSE, num_y |-> FALSE, cat_x |-> FALSE, cat_y |-> FALSE,
     attempted |-> <<>>, rendered |-> <<>>, errors |-> <<>>,
     n_in |-> 0, frame |-> NoFrame, axis_x |-> "", axis_y |-> "",
     counts |-> {}]

\* the widgets of a page at their default values
DefaultWidgets(p, df) ==
    [column |-> IF Len(df.cols) > 0 THEN df.cols[1] ELSE "",
     x_col |-> IF Len(df.cols) > 0 THEN df.cols[1] ELSE "",
     y_col |-> IF Len(df.cols) > 1 THEN df.cols[2]
               ELSE IF Len(df.cols) > 0 THEN df.cols[1] ELSE "",
     color_col |-> NoColor,
     sample_limit |-> IF p = "Bivariate" THEN 5000 ELSE 0,
     cat_threshold |-> 20,
     top_k |-> 25,
     prefer_categorical |-> "Heatmap",
     plot_choice |-> "Scatter",
     chart_choice |-> "Box",
     agg_func |-> "count"]

\* st.error(...); st.stop() after a failed load
StoppedView(msg) == [NoView EXCEPT !.status = "stopped", !.errors = <<msg>>]

\* what a script run returns: the view, and numpy's global generator after it
Out(v, g) == [view |-> v, rng |-> g]

\* the charts of `charts` drawn before the one whose call raises (fail = 0:
\* none raises)
Drawn(charts, fail) ==
    IF fail = 0 \/ fail > Len(charts) THEN charts ELSE SubSeq(charts, 1, fail - 1)

(* --------------------------- pages/Univariate.py ----------------------- *)

\* the page always taking the histogram branch for a numeric dtype
UniNumericBranchDtype(is_num, is_cat) == is_num

\* line 61: if is_num and not is_cat
UniNumericBranch(is_num, is_cat) == is_num /\ ~is_cat

\* lines 87-89: category_trunc
category_trunc(vals, idx, top_k) ==
    where_isin(vals, idx, nlargest(value_counts(vals, idx), top_k))

\* lines 91-92: counts, the table [category, count] handed to the charts
counts_table(trunc, idx) ==
    LET vc == value_counts(trunc, idx)
    IN {[cat |-> vc[i].cat, count |-> vc[i].count] : i \in 1 .. Len(vc)}

\* lines 41-105, df loaded and not empty; fail is the chart call that raises
UnivariateScript(df, wd, g, fail) ==
    LET series == getcol(df, wd.column)
        is_num == is_numeric(series)
        is_cat == is_categorical(series, wd.cat_threshold)
        plot_idx == notna_rows(series.vals, df.idx)
        base == [NoView EXCEPT !.num_x = is_num, !.cat_x = is_cat,
                               !.n_in = Cardinality(plot_idx)]
    IN IF UniNumericBranch(is_num, is_cat)
       THEN LET n == Cardinality(plot_idx)
                sampled == IF wd.sample_limit > 0 /\ n > wd.sample_limit
                           THEN sample(plot_idx, wd.sample_limit, g)
                           ELSE [idx |-> plot_idx, rng |-> g]
                charts == <<"histogram", "box", "describe">>
            IN Out([base EXCEPT
                  !.status = IF fail \in 1 .. 2 THEN "exception" ELSE "ok",
                  !.branch = "Numerical",
                  !.attempted = SubSeq(<<"histogram", "box">>, 1,
                                       IF fail = 1 THEN 1 ELSE 2),
                  !.rendered = Drawn(charts, fail),
                  !.frame = [NoFrame EXCEPT !.idx = sampled.idx,
                                            !.x = [r \in sampled.idx |-> series.vals[r]]],
                  !.axis_x = wd.column], sampled.rng)
       ELSE LET trunc == category_trunc(series.vals, plot_idx, wd.top_k)
                charts == <<"bar", "pie", "counts">>
            IN Out([base EXCEPT
                  !.status = IF fail \in 1 .. 2 THEN "exception" ELSE "ok",
                  !.branch = "Categorical",
                  !.attempted = SubSeq(<<"bar", "pie">>, 1, IF fail = 1 THEN 1 ELSE 2),
                  !.rendered = Drawn(charts, fail),
                  !.frame = [NoFrame EXCEPT !.idx = plot_idx, !.x = trunc],
                  !.axis_x = wd.column,
                  !.counts = counts_table(trunc, plot_idx)], g)

(* --------------------------- pages/Bivariate.py ------------------------ *)

\* line 166
max_display == 40
\* line 172: the most distinct values of a column the contingency heatmap takes
max_heatmap == 60

\* df[[x_col, y_col] + ([color_col] if color_col else [])]
PlotCols(wd) ==
    <<wd.x_col, wd.y_col>> \o (IF wd.color_col = NoColor THEN <<>> ELSE <<wd.color_col>>)

\* the part of a view a renderer fills in
Rendered(chart, idx, x, y, color, ax, ay, failed, g) ==
    [status |-> "ok",
     attempted |-> <<chart>>,
     rendered |-> IF failed THEN <<>> ELSE <<chart>>,
     errors |-> IF failed THEN <<"Unable to render " \o chart>> ELSE <<>>,
     frame |-> [idx |-> idx, x |-> x, y |-> y, color |-> color],
     axis_x |-> ax, axis_y |-> ay, rng |-> g]

colvals(df, c, idx) == [r \in idx |-> df.col[c].vals[r]]
colorvals(df, wd, idx) ==
    IF wd.color_col = NoColor THEN <<>> ELSE colvals(df, wd.color_col, idx)

\* line 95
ShouldSample(sample_limit, n) == sample_limit > 0 /\ n > sample_limit

\* lines 93-103
render_scatter(df, wd, idx, g, fail) ==
    LET n == Cardinality(idx)
        sampled == IF ShouldSample(wd.sample_limit, n)
                   THEN sample(idx, wd.sample_limit, g)
                   ELSE [idx |-> idx, rng |-> g]
    IN Rendered("scatter", sampled.idx, colvals(df, wd.x_col, sampled.idx),
                colvals(df, wd.y_col, sampled.idx), colorvals(df, wd, sampled.idx),
                wd.x_col, wd.y_col, fail, sampled.rng)

\* lines 106-111
render_density_heatmap(df, wd, idx, g, fail) ==
    Rendered("density heatmap", idx, colvals(df, wd.x_col, idx), colvals(df, wd.y_col, idx),
             colorvals(df, wd, idx), wd.x_col, wd.y_col, fail, g)

\* pd.to_datetime(value, errors='coerce') of one value
to_datetime(c) == IF kind(c) = 2 THEN Datetime(c % 1000) ELSE NA

\* lines 114-127.  With X and Y the same column df_plot holds two columns of
\* one name and groupby(x_col) raises; to_datetime raises on a bool column
\* and the column is then left as it is.
render_line(df, wd, idx, g, fail) ==
    LET same == wd.x_col = wd.y_col
        coerced == IF same \/ df.col[wd.x_col].dtype = "bool"
                   THEN colvals(df, wd.x_col, idx)
                   ELSE [r \in idx |-> to_datetime(df.col[wd.x_col].vals[r])]
        kept == notna_rows(coerced, idx)
    IN Rendered("line", kept, [r \in kept |-> coerced[r]], colvals(df, wd.y_col, kept),
                colorvals(df, wd, kept), wd.x_col, wd.y_col, fail \/ same, g)

\* lines 130-138
render_box(df, wd, idx, cat_is_x, g, fail) ==
    Rendered("box", idx, colvals(df, wd.x_col, idx), colvals(df, wd.y_col, idx),
             colorvals(df, wd, idx),
             IF cat_is_x THEN wd.x_col ELSE wd.y_col,
             IF cat_is_x THEN wd.y_col ELSE wd.x_col, fail, g)

\* lines 141-159.  groupby raises when X and Y are the same column, and
\* mean and median raise on a text column.
render_bar_agg(df, wd, idx, categorical_on_x, agg_func, g, fail) ==
    LET value_col == IF categorical_on_x THEN wd.y_col ELSE wd.x_col
        raises == \/ wd.x_col = wd.y_col
                  \/ /\ agg_func \in {"mean", "median"}
                     /\ df.col[value_col].dtype = "object"
    IN Rendered("bar", idx, colvals(df, wd.x_col, idx), colvals(df, wd.y_col, idx),
                colorvals(df, wd, idx),
                IF ~categorical_on_x /\ agg_func = "count" THEN "count" ELSE wd.x_col,
                IF categorical_on_x /\ agg_func = "count" THEN "count" ELSE wd.y_col,
                fail \/ raises, g)

\* the heatmap test looking at the X column only
HeatmapChosenX(prefer_categorical, ux, uy) ==
    prefer_categorical = "Heatmap" /\ ux <= max_heatmap

\* line 172
HeatmapChosen(prefer_categorical, ux, uy) ==
    prefer_categorical = "Heatmap" /\ ux <= max_heatmap /\ uy <= max_heatmap

\* lines 162-185.  With X and Y the same column df_plot[x_col] is a frame,
\* ux a series, and `if ux > max_display` raises outside any try.
render_cat_vs_cat(df, wd, idx, g, fail) ==
    IF wd.x_col = wd.y_col
    THEN [status |-> "exception", attempted |-> <<>>, rendered |-> <<>>, errors |-> <<>>,
          frame |-> [idx |-> idx, x |-> colvals(df, wd.x_col, idx),
                     y |-> colvals(df, wd.y_col, idx), color |-> colorvals(df, wd, idx)],
          axis_x |-> "", axis_y |-> "", rng |-> g]
    ELSE LET xv == df.col[wd.x_col].vals
             yv == df.col[wd.y_col].vals
             ux == nunique(xv, idx)
             uy == nunique(yv, idx)
             x1 == IF ux > max_display THEN top_k_with_other(xv, idx, max_display)
                   ELSE colvals(df, wd.x_col, idx)
             y1 == IF uy > max_display THEN top_k_with_other(yv, idx, max_display)
                   ELSE colvals(df, wd.y_col, idx)
         IN IF HeatmapChosen(wd.prefer_categorical, ux, uy)
            THEN Rendered("contingency heatmap", idx, x1, y1, colorvals(df, wd, idx),
                          wd.x_col, wd.y_col, fail, g)
            ELSE Rendered("histogram", idx, x1, y1, colorvals(df, wd, idx),
                          wd.x_col, wd.y_col, fail, g)

\* lines 189-211: the branch of the main decision flow
Branch(num_x, num_y, cat_x, cat_y) ==
    IF num_x /\ num_y THEN "NumNum"
    ELSE IF (cat_x /\ num_y) \/ (num_x /\ cat_y) THEN "NumCat"
    ELSE "CatCat"

\* lines 46-211, df loaded and not empty; fail: the chart call raises
BivariateScript(df, wd, g, fail) ==
    LET col_x == getcol(df, wd.x_col)
        col_y == getcol(df, wd.y_col)
        num_x == is_numeric(col_x)
        num_y == is_numeric(col_y)
        cat_x == is_categorical_biv(col_x, wd.cat_threshold)
        cat_y == is_categorical_biv(col_y, wd.cat_threshold)
        idx == safe_dropna(df, PlotCols(wd))
        branch == Branch(num_x, num_y, cat_x, cat_y)
        r == IF branch = "NumNum"
             THEN IF wd.plot_choice = "Scatter" THEN render_scatter(df, wd, idx, g, fail)
                  ELSE IF wd.plot_choice = "Heatmap"
                       THEN render_density_heatmap(df, wd, idx, g, fail)
                       ELSE render_line(df, wd, idx, g, fail)
             ELSE IF branch = "NumCat"
                  THEN IF wd.chart_choice = "Box"
                       THEN render_box(df, wd, idx, cat_x, g, fail)
                       ELSE render_bar_agg(df, wd, idx, cat_x, wd.agg_func, g, fail)
                  ELSE render_cat_vs_cat(df, wd, idx, g, fail)
    IN Out([status |-> r.status, branch |-> branch, warn_same |-> wd.x_col = wd.y_col,
            num_x |-> num_x, num_y |-> num_y, cat_x |-> cat_x, cat_y |-> cat_y,
            attempted |-> r.attempted, rendered |-> r.rendered, errors |-> r.errors,
            n_in |-> Cardinality(idx), frame |-> r.frame,
            axis_x |-> r.axis_x, axis_y |-> r.axis_y, counts |-> {}], r.rng)

(* ------------------------------ the session ---------------------------- *)

Pages == {"Home", "Univariate", "Bivariate", "Exploration"}

\* the packages the pages import that may be absent from the environment
OptionalModules == {"ydata_profiling"}

\* pd.read_csv(path, low_memory=False) inside try / except Exception
load_data(file) == IF file = "ok" THEN CsvFrame ELSE EmptyFrame

\* @st.cache_data: the frame load_data returns for page p
Loaded(p) == IF cache[p].hit THEN cache[p].df ELSE load_data(csv_file)

\* widgets a run did not draw lose their state
Normalise(p, wd, v) ==
    [wd EXCEPT
       !.top_k = IF p = "Univariate" /\ v.branch = "Categorical" THEN @ ELSE 25,
       !.plot_choice = IF v.branch = "NumNum" THEN @ ELSE "Scatter",
       !.chart_choice = IF v.branch = "NumCat" THEN @ ELSE "Box",
       !.agg_func = IF v.branch = "NumCat" /\ wd.chart_choice = "Bar" THEN @ ELSE "count"]

\* the script of page p run on the frame df
Script(p, df, wd, g, ufail, bfail) ==
    IF empty(df)
    THEN Out(StoppedView("Could not load Building_Permits.csv"), g)
    ELSE IF p = "Univariate"
         THEN UnivariateScript(df, wd, g, ufail)
         ELSE BivariateScript(df, wd, g, bfail)

\* the rows the script dropped or sampled away taken out of the loaded frame
\* itself
dropped_in_place(df, frame) == [df EXCEPT !.idx = frame.idx]

\* the loaded frame after a run that left `frame` on the page: the scripts
\* write to copies only (df[[...]].copy(), boolean selection, dropna())
after_run(df, frame) == df

\* the state after a run of page p that loaded df and returned out
Commit(p, wd, df, out) ==
    /\ page' = p
    /\ cache' = [cache EXCEPT ![p] = [hit |-> TRUE, df |-> after_run(df, out.view.frame)]]
    /\ view' = out.view
    /\ np_rng' = out.rng
    /\ w' = Normalise(p, wd, out.view)
    /\ reads' = IF cache[p].hit THEN reads ELSE reads + 1
    /\ UNCHANGED <<csv_file, t_in, t_out, installed>>

\* one run of the script of page p with the widgets wd
Run(p, wd, ufail, bfail) ==
    Commit(p, wd, Loaded(p), Script(p, Loaded(p), wd, np_rng, ufail, bfail))

NoInput == [series |-> Series("object", <<>>, {}), threshold |-> 1]
NoOutput == [done |-> FALSE, uni |-> FALSE, biv |-> FALSE]

Init ==
    /\ csv_file \in {"ok", "missing", "unparseable"}
    /\ cache = [p \in Pages |-> [hit |-> FALSE, df |-> EmptyFrame]]
    /\ page = "none"
    /\ w = DefaultWidgets("none", EmptyFrame)
    /\ view = NoView
    /\ np_rng = 0
    /\ t_in = NoInput
    /\ t_out = NoOutput
    /\ reads = 0
    /\ installed = OptionalModules

\* the widgets of the page are on screen
Shown(p) == page = p /\ view.status \in {"ok", "exception"}

ColumnSet == {Columns[i] : i \in 1 .. Len(Columns)}

OpenUnivariate ==
    Run("Univariate", DefaultWidgets("Univariate", Loaded("Univariate")), 0, FALSE)

U_Column ==
    \E c \in ColumnSet \ {w.column} :
        Shown("Univariate") /\ Run("Univariate", [w EXCEPT !.column = c], 0, FALSE)

U_Threshold ==
    \E t \in CatThresholds \ {w.cat_threshold} :
        Shown("Univariate") /\ Run("Univariate", [w EXCEPT !.cat_threshold = t], 0, FALSE)

U_SampleLimit ==
    \E l \in SampleLimits \ {w.sample_limit} :
        Shown("Univariate") /\ Run("Univariate", [w EXCEPT !.sample_limit = l], 0, FALSE)

U_TopK ==
    \E k \in TopKs \ {w.top_k} :
        /\ Shown("Univariate")
        /\ view.branch = "Categorical"
        /\ Run("Univariate", [w EXCEPT !.top_k = k], 0, FALSE)

\* a re-run with the widgets as they are; fail: the chart call that raises
U_Rerun == \E fail \in 0 .. 2 : Shown("Univariate") /\ Run("Univariate", w, fail, FALSE)

OpenBivariate ==
    Run("Bivariate", DefaultWidgets("Bivariate", Loaded("Bivariate")), 0, FALSE)

B_X ==
    \E c \in ColumnSet \ {w.x_col} :
        Shown("Bivariate") /\ Run("Bivariate", [w EXCEPT !.x_col = c], 0, FALSE)

B_Y ==
    \E c \in ColumnSet \ {w.y_col} :
        Shown("Bivariate") /\ Run("Bivariate", [w EXCEPT !.y_col = c], 0, FALSE)

B_Color ==
    \E c \in ColorChoices \ {w.color_col} :
        Shown("Bivariate") /\ Run("Bivariate", [w EXCEPT !.color_col = c], 0, FALSE)

B_SampleLimit ==
    \E l \in SampleLimits \ {w.sample_limit} :
        Shown("Bivariate") /\ Run("Bivariate", [w EXCEPT !.sample_limit = l], 0, FALSE)

B_Threshold ==
    \E t \in CatThresholds \ {w.cat_threshold} :
        Shown("Bivariate") /\ Run("Bivariate", [w EXCEPT !.cat_threshold = t], 0, FALSE)

B_Prefer ==
    \E f \in Prefs \ {w.prefer_categorical} :
        Shown("Bivariate") /\ Run("Bivariate", [w EXCEPT !.prefer_categorical = f], 0, FALSE)

B_PlotChoice ==
    \E c \in PlotChoices \ {w.plot_choice} :
        /\ Shown("Bivariate")
        /\ view.branch = "NumNum"
        /\ Run("Bivariate", [w EXCEPT !.plot_choice = c], 0, FALSE)

B_ChartChoice ==
    \E c \in ChartChoices \ {w.chart_choice} :
        /\ Shown("Bivariate")
        /\ view.branch = "NumCat"
        /\ Run("Bivariate", [w EXCEPT !.chart_choice = c], 0, FALSE)

B_Agg ==
    \E a \in AggFuncs \ {w.agg_func} :
        /\ Shown("Bivariate")
        /\ view.branch = "NumCat"
        /\ w.chart_choice = "Bar"
        /\ Run("Bivariate", [w EXCEPT !.agg_func = a], 0, FALSE)

\* a re-run with the widgets as they are; fail: the chart call raises
B_Rerun == \E fail \in BOOLEAN : Shown("Bivariate") /\ Run("Bivariate", w, 0, fail)

Next ==
    \/ OpenUnivariate
    \/ U_Column
    \/ U_Threshold
    \/ U_SampleLimit
    \/ U_TopK
    \/ U_Rerun
    \/ OpenBivariate
    \/ B_X
    \/ B_Y
    \/ B_Color
    \/ B_SampleLimit
    \/ B_Threshold
    \/ B_Prefer
    \/ B_PlotChoice
    \/ B_ChartChoice
    \/ B_Agg
    \/ B_Rerun

Spec == Init /\ [][Next]_vars

(* ------------------------- Home.py, pages/Exploration.py --------------- *)

\* reads of the CSV file the model follows
MaxReads == 5

\* the sections of the Home page below the load check
HomeSections ==
    <<"Dataset Overview", "Column Descriptions", "Data Preview", "Statistics", "Key Insights">>

\* the script of the Home page run on the frame df
HomeScript(df, g) ==
    IF empty(df)
    THEN Out(StoppedView("Could not load 'Building_Permits.csv'"), g)
    ELSE Out([NoView EXCEPT !.status = "ok", !.rendered = HomeSections,
                            !.n_in = Cardinality(df.idx)], g)

OpenHome ==
    Commit("Home", DefaultWidgets("Home", EmptyFrame), Loaded("Home"),
           HomeScript(Loaded("Home"), np_rng))

\* line 6 of pages/Exploration.py: the import succeeds
import_ProfileReport == "ydata_profiling" \in installed

\* load_data of pages/Exploration.py: pd.read_csv inside try / except
\* FileNotFoundError; any other exception of read_csv leaves the function
load_data_exploration(file) ==
    CASE file = "ok" -> [raised |-> FALSE, df |-> CsvFrame]
      [] file = "missing" -> [raised |-> FALSE, df |-> EmptyFrame]
      [] OTHER -> [raised |-> TRUE, df |-> EmptyFrame]

ExplorationTabs ==
    <<"Dataset Info", "Univariate Analysis", "Missing Data", "Duplicates",
      "Categorical Analysis", "Numerical Analysis", "Automated Profiling">>

\* the script of the Exploration page from the load on; res: what load_data
\* returned or raised, button: 'Generate Profile Report' was pressed, pfail:
\* building the report raises
ExplorationScript(res, button, pfail) ==
    IF res.raised
    THEN [NoView EXCEPT !.status = "exception"]
    ELSE IF empty(res.df)
    THEN StoppedView("File 'Building_Permits.csv' not found")
    ELSE [NoView EXCEPT
            !.status = "ok",
            !.attempted = IF button THEN <<"profile report">> ELSE <<>>,
            !.rendered = IF button /\ ~pfail
                         THEN ExplorationTabs \o <<"profile report">>
                         ELSE ExplorationTabs,
            !.errors = IF button /\ pfail THEN <<"An error occurred">> ELSE <<>>,
            !.n_in = Cardinality(res.df.idx)]

\* one run of pages/Exploration.py
ExplorationRun(button, pfail) ==
    LET hit == cache["Exploration"].hit
        res == IF hit THEN [raised |-> FALSE, df |-> cache["Exploration"].df]
               ELSE load_data_exploration(csv_file)
    IN /\ page' = "Exploration"
       /\ w' = DefaultWidgets("Exploration", EmptyFrame)
       /\ IF ~import_ProfileReport
          THEN /\ view' = [NoView EXCEPT !.status = "exception"]
               /\ UNCHANGED <<cache, reads>>
          ELSE /\ ~hit => reads < MaxReads
               /\ reads' = IF hit THEN reads ELSE reads + 1
               /\ cache' = IF res.raised THEN cache
                           ELSE [cache EXCEPT !["Exploration"] = [hit |-> TRUE, df |-> res.df]]
               /\ view' = ExplorationScript(res, button, pfail)
       /\ UNCHANGED <<csv_file, np_rng, t_in, t_out, installed>>

OpenExploration == ExplorationRun(FALSE, FALSE)

E_Generate ==
    \E pfail \in BOOLEAN :
        /\ page = "Exploration"
        /\ view.status = "ok"
        /\ ExplorationRun(TRUE, pfail)

\* the four pages, in an environment with or without the profiling package
InitPages ==
    /\ csv_file \in {"ok", "missing", "unparseable"}
    /\ cache = [p \in Pages |-> [hit |-> FALSE, df |-> EmptyFrame]]
    /\ page = "none"
    /\ w = DefaultWidgets("none", EmptyFrame)
    /\ view = NoView
    /\ np_rng = 0
    /\ t_in = NoInput
    /\ t_out = NoOutput
    /\ reads = 0
    /\ installed \in SUBSET OptionalModules

NextPages ==
    \/ OpenHome
    \/ OpenExploration
    \/ E_Generate
    \/ OpenUnivariate
    \/ U_Column
    \/ U_Rerun
    \/ OpenBivariate
    \/ B_X
    \/ B_Y
    \/ B_PlotChoice
    \/ B_Rerun

SpecPages == InitPages /\ [][NextPages]_vars

(* ------------------- the classifier applied on its own ----------------- *)

Dtypes == {"int64", "float64", "object", "category", "bool", "datetime64"}

\* the cells a series of a dtype may hold
CellsOf(dtype) ==
    CASE dtype \in {"int64", "float64"} -> {NA, Num(1), Num(2), Num(3)}
      [] dtype \in {"object", "category"} -> {NA, Other, Str(1), Str(2)}
      [] dtype = "bool" -> {Bool(0), Bool(1)}
      [] OTHER -> {NA, Datetime(1), Datetime(2)}

ClassifierInputs ==
    UNION {{[series |-> Series(d, v, 1 .. n), threshold |-> t] :
              v \in [1 .. n -> CellsOf(d)], t \in 1 .. MaxLen} :
           d \in Dtypes, n \in 0 .. MaxLen}

InitClassify ==
    /\ csv_file = "ok"
    /\ cache = [p \in Pages |-> [hit |-> FALSE, df |-> EmptyFrame]]
    /\ page = "none"
    /\ w = DefaultWidgets("none", EmptyFrame)
    /\ view = NoView
    /\ np_rng = 0
    /\ t_in \in ClassifierInputs
    /\ t_out = NoOutput
    /\ reads = 0
    /\ installed = OptionalModules

\* is_categorical of both pages applied to the series
Classify ==
    /\ ~t_out.done
    /\ t_out' = [done |-> TRUE,
                 uni |-> is_categorical(t_in.series, t_in.threshold),
                 biv |-> is_categorical_biv(t_in.series, t_in.threshold)]
    /\ UNCHANGED <<csv_file, cache, page, w, view, np_rng, t_in, reads, installed>>

SpecClassify == InitClassify /\ [][Classify]_vars

(* ------------------------------- claims -------------------------------- *)

\* the frame the current page works on
DF == cache[page].df
UniRan == page = "Univariate" /\ view.status \in {"ok", "exception"}
BivRan == page = "Bivariate" /\ view.status \in {"ok", "exception"}

\* the distinct non-missing values of vals over the rows idx
Distinct(vals, idx) == {vals[r] : r \in idx} \ {NA}

\* C1: is_categorical of the Univariate and of the Bivariate page returns
\* Categorical for a text, boolean or categorical-typed series whatever its
\* values, Categorical for a numeric series with at most `threshold` distinct
\* non-missing values, and Numeric for a numeric series with more.
C1_Classifier ==
    t_out.done =>
        LET d == t_in.series.dtype
            n == Cardinality(Distinct(t_in.series.vals, t_in.series.idx))
        IN /\ d \in {"object", "bool", "category"} => t_out.uni /\ t_out.biv
           /\ d \in {"int64", "float64"} /\ n <= t_in.threshold => t_out.uni /\ t_out.biv
           /\ d \in {"int64", "float64"} /\ n > t_in.threshold => ~t_out.uni /\ ~t_out.biv

\* a numeric series with exactly `threshold` distinct values was classified
C1_Witness ==
    /\ t_out.done
    /\ t_in.series.dtype = "float64"
    /\ Cardinality(Distinct(t_in.series.vals, t_in.series.idx)) = t_in.threshold
    /\ NA \in {t_in.series.vals[r] : r \in t_in.series.idx}
    /\ t_out.uni /\ t_out.biv

\* the role the classifier gives a column: cat is its answer
Role(cat) == IF cat THEN "Categorical" ELSE "Numeric"

\* C2: the Bivariate page picks the chart family from the classifier roles of
\* X and Y: Numeric with Numeric the scatter/heatmap/line branch, one Numeric
\* with one Categorical the box/bar branch, Categorical with Categorical the
\* categorical branch.
C2_BranchFromRoles ==
    BivRan =>
        /\ view.branch = "NumNum" <=> (Role(view.cat_x) = "Numeric" /\ Role(view.cat_y) = "Numeric")
        /\ view.branch = "NumCat" <=> (Role(view.cat_x) # Role(view.cat_y))
        /\ view.branch = "CatCat" <=> (Role(view.cat_x) = "Categorical"
                                         /\ Role(view.cat_y) = "Categorical")

\* the column selected on the Univariate page is classified Numeric
UniClassifiedNumeric ==
    /\ DF.col[w.column].dtype \in {"int64", "float64"}
    /\ Cardinality(Distinct(DF.col[w.column].vals, DF.idx)) > w.cat_threshold

\* C3: on the Univariate page exactly one of two views is drawn: histogram and
\* box plot when the column is classified Numeric, and otherwise bar chart and
\* pie chart over at most top-K categories of the column and 'Other'.
C3_UnivariateView ==
    UniRan =>
        /\ view.branch \in {"Numerical", "Categorical"}
        /\ view.branch = "Numerical" <=> UniClassifiedNumeric
        /\ view.branch = "Categorical" <=> view.cat_x
        /\ view.branch = "Numerical" =>
              /\ view.status = "ok" => view.rendered = <<"histogram", "box", "describe">>
              /\ \A i \in 1 .. Len(view.attempted) : view.attempted[i] \in {"histogram", "box"}
        /\ view.branch = "Categorical" =>
              /\ view.status = "ok" => view.rendered = <<"bar", "pie", "counts">>
              /\ \A i \in 1 .. Len(view.attempted) : view.attempted[i] \in {"bar", "pie"}
              /\ Cardinality({e.cat : e \in view.counts} \ {Other}) <= w.top_k
              /\ {e.cat : e \in view.counts} \subseteq
                    Distinct(DF.col[w.column].vals, DF.idx) \cup {Other}

\* a numeric column of low cardinality got the bar and the pie chart
C3_Witness ==
    /\ UniRan
    /\ view.status = "ok"
    /\ DF.col[w.column].dtype \in {"int64", "float64"}
    /\ Cardinality(Distinct(DF.col[w.column].vals, DF.idx)) <= w.cat_threshold
    /\ view.branch = "Categorical"
    /\ view.rendered = <<"bar", "pie", "counts">>

\* C4: with X and Y the same column the Bivariate page draws the
\* single-column summary and enters no pairwise branch.
C4_SameColumnSummary ==
    BivRan /\ w.x_col = w.y_col =>
        /\ view.branch = "none"
        /\ view.attempted = <<>>
        /\ view.rendered = <<"single-column summary">>

\* the rows of the loaded frame with a value in X, in Y and, when one is
\* selected, in the colour column
PairRows ==
    {r \in DF.idx :
        /\ DF.col[w.x_col].vals[r] # NA
        /\ DF.col[w.y_col].vals[r] # NA
        /\ w.color_col # NoColor => DF.col[w.color_col].vals[r] # NA}

\* the rows of idx where vals holds a category shown under its own name
ShownRows(vals, idx) == {r \in idx : vals[r] \notin {NA, Other}}
\* the rows of idx in the 'Other' bucket
OtherRows(vals, idx) == {r \in idx : vals[r] = Other}

RECURSIVE SumCounts(_)
SumCounts(S) ==
    IF S = {} THEN 0
    ELSE LET e == CHOOSE e \in S : TRUE IN e.count + SumCounts(S \ {e})

CatCatRan == BivRan /\ view.branch = "CatCat" /\ view.attempted # <<>>

\* C5: after the top-K-with-Other collapse the rows of the categories shown
\* plus the rows of 'Other' are the non-missing rows of the column handed to
\* the collapse, each counted once.
C5_CollapseKeepsRows ==
    /\ UniRan /\ view.branch = "Categorical" =>
          /\ SumCounts(view.counts) =
                Cardinality(notna_rows(DF.col[w.column].vals, DF.idx))
          /\ Cardinality(ShownRows(view.frame.x, view.frame.idx))
                + Cardinality(OtherRows(view.frame.x, view.frame.idx))
                = Cardinality(notna_rows(DF.col[w.column].vals, DF.idx))
    /\ CatCatRan =>
          /\ Cardinality(ShownRows(view.frame.x, view.frame.idx))
                + Cardinality(OtherRows(view.frame.x, view.frame.idx))
                = Cardinality(PairRows)
          /\ Cardinality(ShownRows(view.frame.y, view.frame.idx))
                + Cardinality(OtherRows(view.frame.y, view.frame.idx))
                = Cardinality(PairRows)

\* a column of more than top-K categories was collapsed on the Univariate page
C5_Witness ==
    /\ UniRan
    /\ view.branch = "Categorical"
    /\ Cardinality(Distinct(DF.col[w.column].vals, DF.idx)) > w.top_k
    /\ \E r \in view.frame.idx :
          view.frame.x[r] = Other /\ DF.col[w.column].vals[r] # Other

\* the K most frequent categories of vals with their counts, and 'Other' with
\* the count of all remaining rows
TopKAndOther(vals, idx, k) ==
    LET vc == value_counts(vals, idx)
        top == {vc[i].cat : i \in 1 .. k}
    IN {[cat |-> vc[i].cat, count |-> vc[i].count] : i \in 1 .. k}
          \cup {[cat |-> Other,
                 count |-> Cardinality({r \in idx : vals[r] # NA /\ vals[r] \notin top})]}

\* C6: a column of more than K distinct values comes out of the collapse as
\* exactly its K most frequent categories, each with its own count, and one
\* 'Other' category counting all remaining rows.
C6_TopKExact ==
    /\ UniRan /\ view.branch = "Categorical"
          /\ Cardinality(Distinct(DF.col[w.column].vals, DF.idx)) > w.top_k
       => view.counts = TopKAndOther(DF.col[w.column].vals, DF.idx, w.top_k)
    /\ CatCatRan /\ Cardinality(Distinct(DF.col[w.x_col].vals, PairRows)) > max_display
       => counts_table(view.frame.x, view.frame.idx)
             = TopKAndOther(DF.col[w.x_col].vals, PairRows, max_display)

ScatterRan == BivRan /\ view.attempted = <<"scatter">>

Smaller(a, b) == IF a < b THEN a ELSE b

\* C7: render_scatter plots min(sample_limit, input rows) rows.
C7_ScatterSize ==
    ScatterRan =>
        Cardinality(view.frame.idx) = Smaller(w.sample_limit, Cardinality(PairRows))

\* the rows render_scatter plots: all of its input when the limit is 0,
\* min(limit, input rows) of them otherwise
ScatterRows ==
    /\ view.frame.idx \subseteq PairRows
    /\ view.n_in = Cardinality(PairRows)
    /\ w.sample_limit = 0 => view.frame.idx = PairRows
    /\ w.sample_limit > 0 =>
          Cardinality(view.frame.idx) = Smaller(w.sample_limit, Cardinality(PairRows))

\* C7 (amended): with a limit above 0 render_scatter plots min(limit, input
\* rows) of its input rows, with the limit 0 all of them; a further run on
\* the same input with the same limit plots the same rows.
C7_ScatterSample ==
    [][/\ ScatterRan' => ScatterRows'
       /\ ScatterRan /\ ScatterRan' /\ w' = w => view'.frame = view.frame]_vars

\* a scatter plot of a sample smaller than its input
C7_Witness ==
    /\ ScatterRan
    /\ w.sample_limit > 0
    /\ Cardinality(PairRows) > w.sample_limit
    /\ Cardinality(view.frame.idx) = w.sample_limit

\* C8: every row handed to a pairwise renderer has a value in X, in Y and,
\* when one is selected, in the colour column.
C8_NoMissingPlotted ==
    BivRan =>
        /\ view.frame.idx \subseteq PairRows
        /\ \A r \in view.frame.idx : view.frame.x[r] # NA /\ view.frame.y[r] # NA
        /\ w.color_col # NoColor => \A r \in view.frame.idx : view.frame.color[r] # NA

\* a row with X and Y present was left out for its missing colour value
C8_Witness ==
    /\ BivRan
    /\ view.rendered # <<>>
    /\ w.color_col # NoColor
    /\ w.x_col # w.y_col
    /\ \E r \in DF.idx \ view.frame.idx :
          /\ DF.col[w.x_col].vals[r] # NA
          /\ DF.col[w.y_col].vals[r] # NA
          /\ DF.col[w.color_col].vals[r] = NA

\* the distinct values of X and of Y among the rows handed to the renderer
UX == Cardinality(Distinct(DF.col[w.x_col].vals, PairRows))
UY == Cardinality(Distinct(DF.col[w.y_col].vals, PairRows))

CategoricalFields ==
    IF view.branch = "CatCat" THEN {"x", "y"}
    ELSE IF view.axis_x = w.x_col THEN {"x"} ELSE {"y"}

\* C10: no box plot, aggregated bar chart or categorical-vs-categorical chart
\* is drawn over more than 40 categories and 'Other' on a categorical axis.
C10_AtMost41Categories ==
    BivRan /\ view.branch \in {"NumCat", "CatCat"} /\ view.attempted # <<>> =>
        \A f \in CategoricalFields :
            Cardinality(Distinct(view.frame[f], view.frame.idx)) <= max_display + 1

\* C11: on every page, when the CSV file is missing or cannot be parsed,
\* load_data returns the empty frame instead of raising, and the page shows
\* an error and stops before anything that reads the dataset is rendered.
C11_LoadFailureStops ==
    /\ page # "none"
    /\ csv_file # "ok"
    /\ page = "Exploration" => import_ProfileReport
    => /\ view.status = "stopped"
       /\ view.errors # <<>>
       /\ view.rendered = <<>>
       /\ cache[page].hit
       /\ empty(cache[page].df)

\* the elements of a sequence
Range(seq) == {seq[i] : i \in 1 .. Len(seq)}

\* the charts and tables a run of the page is to draw
Planned ==
    IF page = "Univariate"
    THEN IF view.branch = "Numerical" THEN {"histogram", "box", "describe"}
         ELSE {"bar", "pie", "counts"}
    ELSE Range(view.attempted)

\* C12: on the Univariate and Bivariate pages a chart that fails is caught at
\* that chart and reported by an inline error message, the charts and page
\* elements after it are still rendered, and no run ends with an uncaught
\* exception.
C12_ChartFailureCaught ==
    UniRan \/ BivRan =>
        /\ view.status = "ok"
        /\ view.attempted # <<>>
        /\ Range(view.attempted) \ Range(view.rendered) # {} => view.errors # <<>>
        /\ Planned \ Range(view.attempted) \subseteq Range(view.rendered)
        /\ Cardinality(Planned \ Range(view.rendered)) <= Len(view.errors)

\* C13: when ydata_profiling is not installed the Exploration page does not
\* crash: the six tabs other than the profiling tab are rendered and no
\* profile report is produced.
C13_ProfilingOptional ==
    page = "Exploration" /\ ~import_ProfileReport /\ csv_file = "ok" =>
        /\ view.status = "ok"
        /\ Range(ExplorationTabs) \ {"Automated Profiling"} \subseteq Range(view.rendered)
        /\ "profile report" \notin Range(view.rendered)

C15_ReadOnce == reads <= 1

BoxRan == BivRan /\ view.branch = "NumCat" /\ view.attempted = <<"box">>

\* C16: in the 'Numeric vs Categorical' branch render_box puts a column
\* classified Categorical on the category (x) axis and a column of numeric
\* dtype on the value (y) axis.
C16_BoxAxes ==
    BoxRan =>
        /\ {view.axis_x, view.axis_y} = {w.x_col, w.y_col}
        /\ is_categorical_biv(getcol(DF, view.axis_x), w.cat_threshold)
        /\ is_numeric(getcol(DF, view.axis_y))

====
